---- MODULE Spec2Model ----
(***************************************************************************)
(* HttpLatencyTester (src/src/index.ts and its sibling build                *)
(* src/unnamed/part_000): a prober (testDirect, testWithProxy), a          *)
(* setInterval-driven schedule (runContinuousTesting) with a rotating      *)
(* proxy cursor, the SIGINT handler and singleTest.                        *)
(*                                                                         *)
(* Node runs one callback at a time, so every action below is one          *)
(* synchronous stretch of code between two awaits: the timer callback up   *)
(* to its await, the continuation after the await, the signal handler.     *)
(***************************************************************************)
EXTENDS Integers, Sequences, FiniteSets, TLC

\* ---------------------------------------------------------------- bounds
MaxPool == 2        \* longest proxy pool
MaxCount == 2       \* largest configured count
MaxTicks == 2       \* timer callbacks fired in one run
MaxIdx == 2         \* proxyIndex arguments range over -MaxIdx..MaxIdx
MaxClock == 2       \* advances of the clock in one behaviour of SpecClock

VARIABLES
    now,                \* process.hrtime.bigint(), in nanoseconds
    variant,            \* "json": src/src/index.ts, "text": src/unnamed/part_000
    proxies,            \* this.proxies
    currentProxyIndex,  \* this.currentProxyIndex
    useProxy,           \* argument of runContinuousTesting
    count,              \* argument of runContinuousTesting
    timer,              \* the setInterval handle: "idle", "active", "cleared"
    testsCompleted,     \* the closure variable of runContinuousTesting
    inflight,           \* timer callbacks suspended at their await
    used,               \* label of the probe started by each callback, in start order
    emitted,            \* results handed to logResult, in order
    notices,            \* completion and forced-shutdown notices, in order
    exited,             \* process.exit(0) was called
    sPc,                \* singleTest: "idle", "inflight", "returned", "raised"
    sArgs,              \* arguments of the singleTest call in progress
    sBefore,            \* currentProxyIndex when singleTest was called
    sTarget,            \* the proxy entry the pending singleTest call selected
    sResult,            \* the LatencyResult singleTest returned
    sStart,             \* start of the probe of singleTest
    sEnd                \* the instant its response or failure was observed

vars == <<now, variant, proxies, currentProxyIndex, useProxy, count, timer,
          testsCompleted, inflight, used, emitted, notices, exited,
          sPc, sArgs, sBefore, sTarget, sResult, sStart, sEnd>>

runVars == <<useProxy, count, timer, testsCompleted, inflight, used, emitted, notices>>
singleVars == <<sPc, sArgs, sBefore, sTarget, sResult, sStart, sEnd>>

\* ------------------------------------------------------------ data model
IpNames == <<"a", "b", "c", "d">>

\* A ProxyConfig; username and password only enter the proxy URI.
ProxyConfig(i) == [ip |-> IpNames[i], port |-> i]

Pool(n) == [i \in 1..n |-> ProxyConfig(i)]

\* What indexing an array outside its bounds yields.
Undefined == [undefined |-> TRUE]

NoResult == [none |-> TRUE]

NoArgs == [useProxy |-> FALSE, hasIndex |-> FALSE, proxyIndex |-> 0]

\* proxies[i] of JavaScript (0-based); anything but 0..length-1 is undefined.
PoolGet(i) == IF i >= 0 /\ i < Len(proxies) THEN proxies[i + 1] ELSE Undefined

\* Stands for NaN, which is no index of any array.
JsNaN == 0 - 999

\* The % operator of JavaScript: the result takes the sign of the dividend,
\* and x % 0 is NaN.
JsRem(a, b) ==
    IF b = 0 THEN JsNaN
    ELSE IF a >= 0 THEN a % b ELSE 0 - ((0 - a) % b)

\* `${proxyConfig.ip}:${proxyConfig.port}`
ProxyString(cfg) == cfg.ip \o ":" \o ToString(cfg.port)

\* ------------------------------------------------------------------ time
NsPerMs == 1000000

\* The quotient ns / 1_000_000 as whole milliseconds and the remaining
\* nanoseconds, which is the fraction of a millisecond.
LatencyMs(ns) == [ms |-> ns \div NsPerMs, frac |-> ns % NsPerMs]

\* Mutation of Latency: the operands of the subtraction are swapped.
LatencySwapped(start, end) == LatencyMs(start - end)

\* Number(end - start) / 1_000_000
Latency(start, end) == LatencyMs(end - start)

\* The instants the clock can show: each advance adds a nanosecond or a
\* millisecond.
Instants ==
    { p[1] + p[2] * NsPerMs :
        p \in { q \in (0..MaxClock) \X (0..MaxClock) : q[1] + q[2] <= MaxClock } }

Between(t1, t2) == { t \in Instants : t1 <= t /\ t <= t2 }

\* ------------------------------------------------------------- transport
\* What the world does to one request: the ProxyAgent constructor, the
\* request() call, the status line, the body stream and the body's content.
DirectOutcomes ==
    { [agent |-> "ok", request |-> "error", status |-> 0, body |-> "none"] }
    \cup
    { [agent |-> "ok", request |-> "response", status |-> 200, body |-> "json"],
      [agent |-> "ok", request |-> "response", status |-> 500, body |-> "json"],
      [agent |-> "ok", request |-> "response", status |-> 500, body |-> "html"],
      [agent |-> "ok", request |-> "response", status |-> 200, body |-> "aborted"] }

ProxyOutcomes ==
    DirectOutcomes \cup
    { [agent |-> "throws", request |-> "none", status |-> 0, body |-> "none"] }

\* response.body.json() resp. response.body.text(): the decoded body, or the
\* message of the error it throws.
BodyRead(v, body) ==
    CASE body = "aborted" -> [ok |-> FALSE, message |-> "body aborted"]
      [] body = "html" /\ v = "json" -> [ok |-> FALSE, message |-> "Unexpected token"]
      [] OTHER -> [ok |-> TRUE, value |-> body]

\* Mutation of Attempt: a status of 400 or more is treated as a failure.
AttemptRejectingStatus(v, o) ==
    CASE o.agent = "throws" -> [ok |-> FALSE, message |-> "invalid proxy"]
      [] o.request = "error" -> [ok |-> FALSE, message |-> "request failed"]
      [] o.status >= 400 -> [ok |-> FALSE, message |-> "bad status"]
      [] OTHER -> BodyRead(v, o.body)

\* The body of the try block: the first throw wins.
Attempt(v, o) ==
    CASE o.agent = "throws" -> [ok |-> FALSE, message |-> "invalid proxy"]
      [] o.request = "error" -> [ok |-> FALSE, message |-> "request failed"]
      [] OTHER -> BodyRead(v, o.body)

SuccessResult(v, label, lat, o, value) ==
    IF v = "json"
    THEN [proxy |-> label, latency |-> lat, success |-> TRUE, responseData |-> value]
    ELSE [proxy |-> label, latency |-> lat, success |-> TRUE, statusCode |-> o.status,
          responseBody |-> value]

\* Mutation of FailureResult: the failure record keeps a response field.
FailureResultKeepsBody(label, lat, message) ==
    [proxy |-> label, latency |-> lat, success |-> FALSE, error |-> message,
     responseData |-> "none"]

FailureResult(label, lat, message) ==
    [proxy |-> label, latency |-> lat, success |-> FALSE, error |-> message]

\* The instant `end` is captured for a probe started at start whose response
\* arrived at tr and which settles at t: after the request on the success
\* path, in the catch block otherwise.  A throwing ProxyAgent constructor is
\* caught in the stretch of code that captured start.
Observed(v, o, start, tr, t) ==
    CASE o.agent = "throws" -> start
      [] Attempt(v, o).ok -> tr
      [] OTHER -> t

\* The LatencyResult of testDirect / testWithProxy for one outcome, for a
\* probe started at start whose response or failure was observed at end.
ProbeResult(v, label, o, start, end) ==
    LET a == Attempt(v, o)
    IN  IF a.ok THEN SuccessResult(v, label, Latency(start, end), o, a.value)
        ELSE FailureResult(label, Latency(start, end), a.message)

testDirect(v, o, start, end) == ProbeResult(v, "direct", o, start, end)

testWithProxy(v, cfg, o, start, end) ==
    ProbeResult(v, ProxyString(cfg), o, start, end)

\* ------------------------------------------------------------- selection
\* Mutation of UseProxyMode: the length of the pool is not looked at.
UseProxyModeIgnoringPool(up) == up

\* useProxy && this.proxies.length > 0
UseProxyMode(up) == up /\ Len(proxies) > 0

\* What a timer callback probes.
SelectTick(up) ==
    IF UseProxyMode(up)
    THEN [mode |-> "proxy", cfg |-> PoolGet(currentProxyIndex)]
    ELSE [mode |-> "direct"]

\* proxyIndex !== undefined ? proxyIndex % this.proxies.length : this.currentProxyIndex
SingleIndex(a) ==
    IF a.hasIndex THEN JsRem(a.proxyIndex, Len(proxies)) ELSE currentProxyIndex

\* What a singleTest call probes.
SelectSingle(a) ==
    IF UseProxyMode(a.useProxy)
    THEN [mode |-> "proxy", cfg |-> PoolGet(SingleIndex(a))]
    ELSE [mode |-> "direct"]

LabelOf(sel) == IF sel.mode = "proxy" THEN ProxyString(sel.cfg) ELSE "direct"

OutcomesOf(mode) == IF mode = "proxy" THEN ProxyOutcomes ELSE DirectOutcomes

\* ------------------------------------------------------------------ Init
Init ==
    /\ variant \in {"json", "text"}
    /\ \E n \in 0..MaxPool : proxies = Pool(n)
    /\ currentProxyIndex = 0
    /\ useProxy = FALSE
    /\ count = 0
    /\ timer = "idle"
    /\ testsCompleted = 0
    /\ inflight = {}
    /\ used = <<>>
    /\ emitted = <<>>
    /\ notices = <<>>
    /\ exited = FALSE
    /\ sPc = "idle"
    /\ sArgs = NoArgs
    /\ sBefore = 0
    /\ sTarget = Undefined
    /\ sResult = NoResult
    /\ now = 0
    /\ sStart = 0
    /\ sEnd = 0

\* --------------------------------------------------------------- actions
\* runContinuousTesting(intervalMs, up, n): arms the timer and returns.
RunContinuousTesting ==
    /\ ~exited
    /\ timer = "idle"
    /\ \E up \in BOOLEAN, n \in 0..MaxCount :
        /\ useProxy' = up
        /\ count' = n
    /\ timer' = "active"
    /\ testsCompleted' = 0
    /\ UNCHANGED <<now, variant, proxies, currentProxyIndex, inflight, used, emitted,
                   notices, exited>>
    /\ UNCHANGED singleVars

\* Mutation of CountOne: clearInterval is left out.
CountOneKeepsTimer(kind) ==
    /\ testsCompleted' = testsCompleted + 1
    /\ IF testsCompleted + 1 >= count
       THEN /\ notices' = Append(notices, [kind |-> kind, n |-> testsCompleted + 1])
            /\ UNCHANGED timer
       ELSE UNCHANGED <<notices, timer>>

\* testsCompleted++ and the check that follows it, in the try block.
CountOne(kind) ==
    /\ testsCompleted' = testsCompleted + 1
    /\ IF testsCompleted + 1 >= count
       THEN /\ notices' = Append(notices, [kind |-> kind, n |-> testsCompleted + 1])
            /\ timer' = "cleared"
       ELSE UNCHANGED <<notices, timer>>

\* Mutation of ScheduleError: the catch block does not count the tick.
ScheduleErrorUncounted ==
    /\ notices' = Append(notices, [kind |-> "scheduling error", n |-> testsCompleted])
    /\ UNCHANGED <<testsCompleted, timer>>

\* The catch block of the callback: console.error, testsCompleted++ and the
\* check that follows it.
ScheduleError ==
    /\ testsCompleted' = testsCompleted + 1
    /\ LET logged == Append(notices,
                        [kind |-> "scheduling error", n |-> testsCompleted])
       IN  IF testsCompleted + 1 >= count
           THEN /\ notices' = Append(logged, [kind |-> "completed with errors",
                                              n |-> testsCompleted + 1])
                /\ timer' = "cleared"
           ELSE /\ notices' = logged
                /\ UNCHANGED timer

\* Mutation of NextCursor: a failed probe does not advance the cursor.
NextCursorOnSuccess(p, r) ==
    IF p.mode = "proxy" /\ r.success
    THEN (currentProxyIndex + 1) % Len(proxies)
    ELSE currentProxyIndex

\* Mutation of NextCursor: a direct probe advances the cursor too.
NextCursorAlways(p, r) ==
    IF Len(proxies) > 0
    THEN (currentProxyIndex + 1) % Len(proxies)
    ELSE currentProxyIndex

\* Mutation of NextCursor: the cursor is not reduced modulo the pool length.
NextCursorNoWrap(p, r) ==
    IF p.mode = "proxy" THEN currentProxyIndex + 1 ELSE currentProxyIndex

\* The cursor after the probe p of a callback returned r: advanced in the
\* proxy branch, whatever r is.
NextCursor(p, r) ==
    IF p.mode = "proxy"
    THEN (currentProxyIndex + 1) % Len(proxies)
    ELSE currentProxyIndex

\* Mutation of Logged: only successful results are printed.
LoggedOnSuccess(r) == IF r.success THEN Append(emitted, r) ELSE emitted

\* this.logResult(result)
Logged(r) == Append(emitted, r)

\* The timer fires: the callback runs up to its await.  A proxy entry that is
\* undefined makes testWithProxy throw before its try block; the callback's
\* catch then counts the tick.
Tick ==
    /\ ~exited
    /\ timer = "active"
    /\ Len(used) < MaxTicks
    /\ LET sel == SelectTick(useProxy)
       IN  IF sel.mode = "proxy" /\ sel.cfg = Undefined
           THEN /\ ScheduleError
                /\ used' = Append(used, "undefined")
                /\ UNCHANGED <<inflight, emitted>>
           ELSE /\ inflight' = inflight \cup
                        { [id |-> Len(used) + 1, mode |-> sel.mode,
                           label |-> LabelOf(sel), start |-> now] }
                /\ used' = Append(used, LabelOf(sel))
                /\ UNCHANGED <<testsCompleted, notices, timer, emitted>>
    /\ UNCHANGED <<now, variant, proxies, currentProxyIndex, useProxy, count, exited>>
    /\ UNCHANGED singleVars

\* A probe started by a callback settles and the callback resumes after its
\* await: cursor, logResult, counter, clearInterval.
TickSettle ==
    /\ ~exited
    /\ \E p \in inflight :
       \E o \in OutcomesOf(p.mode), tr \in Between(p.start, now) :
        LET r == ProbeResult(variant, p.label, o, p.start,
                             Observed(variant, o, p.start, tr, now))
        IN  /\ inflight' = inflight \ {p}
            /\ currentProxyIndex' = NextCursor(p, r)
            /\ emitted' = Logged(r)
            /\ CountOne("completed")
    /\ UNCHANGED <<now, variant, proxies, useProxy, count, used, exited>>
    /\ UNCHANGED singleVars

\* A response whose JSON body has an object without a callable toString in
\* data.first_listed_at, data.category or data.title, such as
\* {"data": {"title": {"toString": 0}}}: the template literal that prints
\* the field throws a TypeError.
UnprintableOutcome ==
    [agent |-> "ok", request |-> "response", status |-> 200,
     body |-> "json unprintable"]

\* A probe started by a callback returns such a payload (json build): the
\* cursor is advanced, logResult prints the result line and throws on the
\* data line, and the catch block runs.
TickSettleThrows ==
    /\ ~exited
    /\ variant = "json"
    /\ \E p \in inflight :
       \E tr \in Between(p.start, now) :
        LET r == ProbeResult(variant, p.label, UnprintableOutcome, p.start,
                             Observed(variant, UnprintableOutcome, p.start, tr, now))
        IN  /\ inflight' = inflight \ {p}
            /\ currentProxyIndex' = NextCursor(p, r)
            /\ emitted' = Logged(r)
            /\ ScheduleError
    /\ UNCHANGED <<now, variant, proxies, useProxy, count, used, exited>>
    /\ UNCHANGED singleVars

\* Mutation of Sigint: the handler stops the timer and does not exit.
SigintWithoutExit ==
    /\ ~exited
    /\ timer # "idle"
    /\ \A i \in 1..Len(notices) : notices[i].kind # "forced"
    /\ notices' = Append(notices, [kind |-> "forced", n |-> testsCompleted])
    /\ timer' = "cleared"
    /\ UNCHANGED <<now, variant, proxies, currentProxyIndex, useProxy, count,
                   testsCompleted, inflight, used, emitted, exited>>
    /\ UNCHANGED singleVars

\* process.on('SIGINT'): notice, clearInterval, process.exit(0).  The exit
\* abandons the callbacks in flight and a pending singleTest call with them.
Sigint ==
    /\ ~exited
    /\ timer # "idle"
    /\ notices' = Append(notices, [kind |-> "forced", n |-> testsCompleted])
    /\ timer' = "cleared"
    /\ exited' = TRUE
    /\ sPc' = "idle"
    /\ sArgs' = NoArgs
    /\ sBefore' = 0
    /\ sTarget' = Undefined
    /\ sResult' = NoResult
    /\ sStart' = 0
    /\ sEnd' = 0
    /\ UNCHANGED <<now, variant, proxies, currentProxyIndex, useProxy, count,
                   testsCompleted, inflight, used, emitted>>

\* singleTest(up, proxyIndex?) up to its await; an undefined proxy entry makes
\* testWithProxy throw, which rejects the promise singleTest returned.  With
\* the index omitted or the flag false the index argument plays no part.  One
\* call is followed: a later call would overwrite the record of this one and
\* reach no state that a behaviour with the later call alone does not reach.
SingleTest ==
    /\ ~exited
    /\ sPc = "idle"
    /\ \E up \in BOOLEAN, has \in BOOLEAN, idx \in (0 - MaxIdx)..MaxIdx :
        /\ (has /\ up) \/ (idx = 0 /\ ~has)
        /\ LET a == [useProxy |-> up, hasIndex |-> has, proxyIndex |-> idx]
               sel == SelectSingle(a)
           IN  /\ sArgs' = a
               /\ sTarget' = IF sel.mode = "proxy" THEN sel.cfg ELSE Undefined
               /\ sPc' = IF sel.mode = "proxy" /\ sel.cfg = Undefined
                         THEN "raised" ELSE "inflight"
    /\ sBefore' = currentProxyIndex
    /\ sResult' = NoResult
    /\ sStart' = now
    /\ sEnd' = now
    /\ UNCHANGED <<now, variant, proxies, currentProxyIndex, exited>>
    /\ UNCHANGED runVars

\* Mutation of SingleSettle: singleTest advances the cursor as a tick does.
SingleSettleAdvancing ==
    /\ ~exited
    /\ sPc = "inflight"
    /\ IF UseProxyMode(sArgs.useProxy)
       THEN /\ \E o \in ProxyOutcomes, tr \in Between(sStart, now) :
                /\ sEnd' = Observed(variant, o, sStart, tr, now)
                /\ sResult' = testWithProxy(variant, sTarget, o, sStart, sEnd')
            /\ currentProxyIndex' = (currentProxyIndex + 1) % Len(proxies)
       ELSE /\ \E o \in DirectOutcomes, tr \in Between(sStart, now) :
                /\ sEnd' = Observed(variant, o, sStart, tr, now)
                /\ sResult' = testDirect(variant, o, sStart, sEnd')
            /\ UNCHANGED currentProxyIndex
    /\ sPc' = "returned"
    /\ sArgs' = NoArgs
    /\ sTarget' = Undefined
    /\ UNCHANGED <<now, variant, proxies, exited, sBefore, sStart>>
    /\ UNCHANGED runVars

\* The probe of singleTest settles and singleTest returns its result.
SingleSettle ==
    /\ ~exited
    /\ sPc = "inflight"
    /\ IF UseProxyMode(sArgs.useProxy)
       THEN \E o \in ProxyOutcomes, tr \in Between(sStart, now) :
                /\ sEnd' = Observed(variant, o, sStart, tr, now)
                /\ sResult' = testWithProxy(variant, sTarget, o, sStart, sEnd')
       ELSE \E o \in DirectOutcomes, tr \in Between(sStart, now) :
                /\ sEnd' = Observed(variant, o, sStart, tr, now)
                /\ sResult' = testDirect(variant, o, sStart, sEnd')
    /\ sPc' = "returned"
    /\ sArgs' = NoArgs
    /\ sTarget' = Undefined
    /\ UNCHANGED <<now, variant, proxies, currentProxyIndex, exited, sBefore, sStart>>
    /\ UNCHANGED runVars

Next ==
    \/ RunContinuousTesting
    \/ Tick
    \/ TickSettle
    \/ Sigint
    \/ SingleTest
    \/ SingleSettle

\* Spec leaves time out: its clock stands still.  Its payloads are all
\* printable.
Spec == Init /\ [][Next]_vars

\* The schedule alone, with payloads that logResult cannot print.
NextSinkThrows ==
    \/ RunContinuousTesting
    \/ Tick
    \/ TickSettle
    \/ TickSettleThrows
    \/ Sigint

SpecSinkThrows == Init /\ [][NextSinkThrows]_vars

\* The schedule alone.
NextRun ==
    \/ RunContinuousTesting
    \/ Tick
    \/ TickSettle
    \/ Sigint

\* The timer keeps firing while it is active and every probe that was started
\* settles.
SpecLive == Init /\ [][NextRun]_vars /\ WF_vars(Tick) /\ WF_vars(TickSettle)

\* Time passes: by a nanosecond or by a millisecond.
ClockAdvance ==
    /\ ~exited
    /\ \E t \in Instants :
        /\ t \in {now + 1, now + NsPerMs}
        /\ now' = t
    /\ UNCHANGED <<variant, proxies, currentProxyIndex, exited>>
    /\ UNCHANGED runVars
    /\ UNCHANGED singleVars

\* The prober under a running clock, called through singleTest.
NextClock ==
    \/ SingleTest
    \/ SingleSettle
    \/ ClockAdvance

SpecClock == Init /\ [][NextClock]_vars

\* ---------------------------------------------------------------- claims
Results == { emitted[i] : i \in 1..Len(emitted) }
                \cup (IF sPc = "returned" THEN {sResult} ELSE {})

HasPayload(r) == "responseData" \in DOMAIN r \/ "responseBody" \in DOMAIN r

HasError(r) == "error" \in DOMAIN r

\* a mod b of mathematics, in 0..b-1 for b > 0
MathMod(a, b) == ((a % b) + b) % b

\* C1: at most one probe started by the timer is in flight at any time.
AtMostOneInFlight == Cardinality(inflight) <= 1

\* C2: a run that ended without being cancelled has emitted exactly count results.
ExactlyCountEmitted ==
    (timer = "cleared" /\ inflight = {} /\ ~exited) => Len(emitted) = count

\* C3: in proxy mode the k-th timer callback (0-indexed) probes through pool[k mod L].
RotationByTickIndex ==
    UseProxyMode(useProxy) =>
        \A k \in 1..Len(used) :
            used[k] = ProxyString(proxies[((k - 1) % Len(proxies)) + 1])

\* C4 as stated: when singleTest has returned, the cursor has the value it had
\* at the call.
SingleTestCursorAsBefore == sPc = "returned" => currentProxyIndex = sBefore

\* C4 as amended: no step of singleTest writes the cursor; it moves only in a
\* step in which a probe of the schedule settles.
CursorMovedOnlyByTick ==
    [][currentProxyIndex' # currentProxyIndex
         => (inflight' # inflight /\ sPc' = sPc /\ sResult' = sResult)]_vars

\* C4 witness: singleTest returned a proxied result while the schedule was
\* running with a probe in flight.
SingleTestReturnedDuringRun ==
    /\ sPc = "returned" /\ sResult.proxy # "direct"
    /\ timer = "active" /\ inflight # {}

\* C5: every result has its success payload or its error, gated by success,
\* never both and never neither.
ExactlyOnePopulated ==
    \A r \in Results :
        /\ r.success => (HasPayload(r) /\ ~HasError(r))
        /\ ~r.success => (HasError(r) /\ ~HasPayload(r))

\* C5 witness: a successful and a failed result have been produced.
BothKindsProduced ==
    /\ \E r \in Results : r.success
    /\ \E r \in Results : ~r.success

\* C6: with an empty pool the proxy flag does not matter: the timer callback
\* and singleTest select a direct probe either way, every probe started and
\* every result is labelled "direct" and the cursor stays 0.
EmptyPoolIsDirect ==
    Len(proxies) = 0 =>
        /\ SelectTick(TRUE) = SelectTick(FALSE)
        /\ \A has \in BOOLEAN, idx \in (0 - MaxIdx)..MaxIdx :
              SelectSingle([useProxy |-> TRUE, hasIndex |-> has, proxyIndex |-> idx])
                = SelectSingle([useProxy |-> FALSE, hasIndex |-> has, proxyIndex |-> idx])
        /\ \A k \in 1..Len(used) : used[k] = "direct"
        /\ \A p \in inflight : p.mode = "direct"
        /\ \A r \in Results : r.proxy = "direct"
        /\ testsCompleted = Len(emitted)
        /\ sPc # "raised"
        /\ currentProxyIndex = 0

\* C6 witness: a run with the proxy flag set and an empty pool has emitted a
\* result and singleTest has returned one.
EmptyPoolProxyRunEmitted ==
    /\ Len(proxies) = 0 /\ useProxy /\ Len(emitted) >= 1
    /\ sPc = "returned"

\* C7: after the forced-shutdown notice reporting k completed probes, the
\* number of results emitted stays k.
ForcedShutdownFreezesOutput ==
    \A i \in 1..Len(notices) :
        notices[i].kind = "forced" => Len(emitted) = notices[i].n

\* C7 witness: the run was cancelled after a result was emitted, with a probe
\* in flight.
CancelledMidProbe == exited /\ inflight # {} /\ Len(emitted) >= 1

\* C8: no call of testDirect or testWithProxy raises to its caller.
ProbesNeverRaise == sPc # "raised"

TransportMessages == {"request failed", "invalid proxy", "body aborted"}

\* C9 as stated: success is false only when a transport failure kept the
\* response from being received.
FailureOnlyFromTransport ==
    \A r \in Results : ~r.success => r.error \in TransportMessages

\* C9 as amended: success is false exactly when the try block threw: the agent,
\* the request, the body stream, or (json build only) the decoding of the body;
\* a successful result carries the decoded body, whatever the status.
SuccessIffBodyDecoded ==
    \A r \in Results :
        /\ ~r.success => r.error \in TransportMessages \cup {"Unexpected token"}
        /\ (~r.success /\ r.error = "Unexpected token") => variant = "json"
        /\ (r.success /\ variant = "json") => r.responseData = "json"
        /\ (r.success /\ variant = "text") =>
              (r.responseBody \in {"json", "html"} /\ r.statusCode \in {200, 500})

\* C9 witness: the json build produced a success and a failure on an
\* undecodable body.
DecodeFailureProduced ==
    /\ \E r \in Results : r.success
    /\ \E r \in Results : ~r.success /\ r.error = "Unexpected token"

\* C10: singleTest(true, i) on a pool of length L > 0 probes through
\* pool[i mod L], the index being in 0..L-1.
SingleTestSelectsByMod ==
    (sPc \in {"inflight", "raised"} /\ UseProxyMode(sArgs.useProxy) /\ sArgs.hasIndex)
        => /\ sPc = "inflight"
           /\ sTarget = proxies[MathMod(sArgs.proxyIndex, Len(proxies)) + 1]

\* C11: every result carries a latency, on the success and on the failure
\* path; it is not negative and it is the clock difference between the start
\* of the probe and the instant its response or failure was observed.
LatencyIsClockDifference ==
    /\ \A r \in Results :
        /\ "latency" \in DOMAIN r
        /\ r.latency.ms >= 0
        /\ r.latency.frac \in 0..(NsPerMs - 1)
    /\ sPc = "returned" =>
        /\ sStart <= sEnd /\ sEnd <= now
        /\ sResult.latency.ms * NsPerMs + sResult.latency.frac = sEnd - sStart

\* C11 witness: a failed probe returned a latency of a millisecond and a
\* fraction.
FailureWithLatency ==
    /\ sPc = "returned" /\ ~sResult.success
    /\ sResult.latency.ms >= 1 /\ sResult.latency.frac >= 1

\* C12: in proxy mode the cursor is the number of probes that returned,
\* modulo the pool length.
CursorIsReturnedModL ==
    (UseProxyMode(useProxy) /\ timer # "idle")
        => currentProxyIndex = Len(emitted) % Len(proxies)

\* C12 witness: two proxied probes returned on a pool of two, one of them
\* failed, and the cursor is back at 0.
CursorWrappedAfterFailure ==
    /\ UseProxyMode(useProxy) /\ Len(proxies) = 2 /\ Len(emitted) = 2
    /\ \E i \in 1..Len(emitted) : ~emitted[i].success
    /\ currentProxyIndex = 0

\* C13: once the timer was cleared because the counter reached the count, no
\* probe is started, no result is emitted and the counter does not change.
StoppedIsQuiet ==
    [][(timer = "cleared" /\ ~exited)
         => (used' = used /\ emitted' = emitted /\ testsCompleted' = testsCompleted)]_vars

\* C14: the counter equals the number of results emitted, successes and
\* failures alike.
CounterEqualsEmitted == testsCompleted = Len(emitted)

\* C14 witness: a successful and a failed probe of the schedule were both
\* printed and counted.
BothKindsCounted ==
    /\ testsCompleted = 2
    /\ \E i \in 1..Len(emitted) : emitted[i].success
    /\ \E i \in 1..Len(emitted) : ~emitted[i].success

\* C15: a step that logs a scheduling error counts the tick exactly once and
\* leaves the timer running unless the counter has reached the count.
SchedulingErrorCounted ==
    [][(Len(notices') > Len(notices)
          /\ notices'[Len(notices) + 1].kind = "scheduling error")
         => /\ testsCompleted' = testsCompleted + 1
            /\ testsCompleted' < count => timer' = timer
            /\ testsCompleted' >= count => timer' = "cleared"]_vars

\* C15 witness: after a scheduling error at the first probe the schedule went
\* on, a later probe was printed and the counter reached the count.
RunCompletedAfterSchedulingError ==
    /\ Len(notices) = 2 /\ notices[1].kind = "scheduling error"
    /\ notices[1].n = 0 /\ notices[2].kind = "completed"
    /\ count = 2 /\ testsCompleted = 2 /\ Len(used) = 2
    /\ timer = "cleared" /\ ~exited

\* C16: a run with a count of at least 1 ends cancelled or reaches Stopped:
\* the counter has reached the count, the timer is cleared and a completion
\* notice was printed.
RunReachesStopped ==
    (timer = "active" /\ count >= 1 /\ count <= MaxTicks)
        ~> (exited \/ (/\ timer = "cleared"
                       /\ testsCompleted >= count
                       /\ \E i \in 1..Len(notices) : notices[i].kind = "completed"))

\* C16 witness: a run in which every probe failed has reached Stopped.
StoppedAfterFailuresOnly ==
    /\ timer = "cleared" /\ ~exited /\ count = 2 /\ testsCompleted = 2
    /\ \A i \in 1..Len(emitted) : ~emitted[i].success

\* C17: a direct-mode probe of the schedule that returns leaves the cursor
\* as it was.
DirectTickKeepsCursor ==
    [][(~UseProxyMode(useProxy) /\ Len(emitted') > Len(emitted))
         => currentProxyIndex' = currentProxyIndex]_vars

\* C17 witness: with a pool but the proxy flag off, two direct probes returned.
DirectRunWithPool ==
    /\ ~useProxy /\ Len(proxies) > 0 /\ Len(emitted) = 2
    /\ \A i \in 1..Len(emitted) : emitted[i].proxy = "direct"

\* C18: a run with a count of at least 1 starts at most count probes.
StartsAtMostCount ==
    (timer # "idle" /\ count >= 1) => Len(used) <= count

\* C19: with a count of at least 1 the completion notice is printed at most
\* once and reports the count.
CompletionNoticeOnce ==
    count >= 1 =>
        LET done == { i \in 1..Len(notices) :
                        notices[i].kind \in {"completed", "completed with errors"} }
        IN  /\ Cardinality(done) <= 1
            /\ \A i \in done : notices[i].n = count

\* C20: the cursor is an index of the pool, 0 for an empty pool, and every
\* probe a callback started went through an entry of the pool or direct.
CursorIsValidIndex ==
    /\ Len(proxies) > 0 => currentProxyIndex \in 0..(Len(proxies) - 1)
    /\ Len(proxies) = 0 => currentProxyIndex = 0
    /\ \A k \in 1..Len(used) :
          used[k] \in {"direct"} \cup { ProxyString(proxies[i]) : i \in 1..Len(proxies) }

\* C20 witness: the cursor stands at the last entry of a pool of two while
\* singleTest has returned.
CursorAtLastEntry ==
    /\ Len(proxies) = 2 /\ currentProxyIndex = 1
    /\ UseProxyMode(useProxy) /\ sPc = "returned"

====
